---- MODULE Spec2Model ----
(***************************************************************************)
(* Model of the storefront backend in src/main.py: the product catalog     *)
(* handlers (create/get/update/delete) over the "product" collection and   *)
(* the Stripe checkout-session builder.                                    *)
(*                                                                         *)
(* Catalog handlers are one action each.  create_checkout_session is       *)
(* split at its suspension points (one store read per cart item, then the  *)
(* gateway call) so that catalog writes of other requests interleave.      *)
(*                                                                         *)
(* Abstractions: a document carries title, price and images (the other     *)
(* ProductIn fields are copied exactly like title); prices are counted in  *)
(* thousandths of a major unit; identifier strings are sequences of        *)
(* characters of length OidHexLen instead of 24.                           *)
(***************************************************************************)
EXTENDS Integers, Sequences, FiniteSets, TLC

VARIABLES
    STRIPE_SECRET,  \* TRUE iff the STRIPE_SECRET_KEY environment variable is set
    stripe,         \* module global: "None" or "sdk"
    db,             \* module global imported from database: "None" or "Database"
    product,        \* the "product" collection: ObjectId -> stored attributes
    nextKey,        \* number of ObjectIds the store has assigned so far
    resp,           \* response of the last catalog request
    pc,             \* position of the checkout request: "idle", "loop", "done"
    req,            \* the CheckoutRequest in flight (its items)
    prods,          \* the documents the loop has read so far (local prod)
    line_items,     \* local line_items of create_checkout_session
    storeReads,     \* store calls issued by the checkout request so far
    gateway,        \* calls received by the payment gateway for this request
    response        \* response of the checkout request

vars == <<STRIPE_SECRET, stripe, db, product, nextKey, resp,
          pc, req, prods, line_items, storeReads, gateway, response>>

catalogVars == <<product, nextKey, resp>>
checkoutVars == <<pc, req, prods, line_items, storeReads, gateway, response>>
configVars == <<STRIPE_SECRET, stripe, db>>

(***************************************************************************)
(* Bounds                                                                  *)
(***************************************************************************)
MaxProducts == 2     \* documents ever created
MaxCart == 2         \* items of a cart
OidHexLen == 2       \* characters of an identifier string (24 in bson)

(***************************************************************************)
(* ObjectId: parsing a client string and formatting a key.                 *)
(***************************************************************************)
HexChars == {"0", "1", "2", "3", "4", "a", "A", "b", "B"}

HexValue(c) ==
    CASE c = "0" -> 0 [] c = "1" -> 1 [] c = "2" -> 2 [] c = "3" -> 3
      [] c = "4" -> 4 [] c = "a" -> 10 [] c = "A" -> 10
      [] c = "b" -> 11 [] c = "B" -> 11

HexDigit(v) ==
    CASE v = 0 -> "0" [] v = 1 -> "1" [] v = 2 -> "2" [] v = 3 -> "3"
      [] v = 4 -> "4" [] v = 10 -> "a" [] v = 11 -> "b"

\* bson.ObjectId.is_valid / the check ObjectId(s) makes before raising InvalidId
IsValidObjectId(s) ==
    /\ Len(s) = OidHexLen
    /\ \A i \in 1..Len(s) : s[i] \in HexChars

\* ObjectId(s) for a valid s: the binary key
ObjectId(s) == [i \in 1..Len(s) |-> HexValue(s[i])]

\* str(oid): lower-case hex
Str(oid) == [i \in 1..Len(oid) |-> HexDigit(oid[i])]

\* the n-th key the store assigns
NewObjectId(n) ==
    [i \in 1..OidHexLen |-> IF i = 1 THEN 10 ELSE IF i = OidHexLen THEN n ELSE 0]

ToUpper(s) ==
    [i \in 1..Len(s) |-> IF s[i] = "a" THEN "A" ELSE IF s[i] = "b" THEN "B" ELSE s[i]]

BadCharset == [i \in 1..OidHexLen |-> "z"]
BadLength == <<"a">>

\* identifier strings clients send
IdStrings ==
    {Str(NewObjectId(n)) : n \in 1..MaxProducts}
      \cup {ToUpper(Str(NewObjectId(n))) : n \in 1..MaxProducts}
      \cup {BadCharset, BadLength}

(***************************************************************************)
(* Schemas                                                                 *)
(***************************************************************************)
\* ProductIn payloads (price in thousandths: 19.99 and 0.999)
ProductIn ==
    { [title |-> "Detox", price |-> 19990, images |-> <<"u1", "u2">>],
      [title |-> "Mint", price |-> 999, images |-> <<>>] }

\* CartItem values clients send: a canonical identifier, an upper-case one,
\* a malformed one
CartItem ==
    { [product_id |-> Str(NewObjectId(1)), quantity |-> 2],
      [product_id |-> ToUpper(Str(NewObjectId(2))), quantity |-> 1],
      [product_id |-> BadCharset, quantity |-> 1] }

RECURSIVE SeqsUpTo(_, _)
SeqsUpTo(S, n) ==
    IF n = 0 THEN {<<>>}
    ELSE LET shorter == SeqsUpTo(S, n - 1)
         IN  shorter \cup {Append(s, x) : s \in {t \in shorter : Len(t) = n - 1}, x \in S}

CheckoutRequest == SeqsUpTo(CartItem, MaxCart)

(***************************************************************************)
(* Store and serialization                                                 *)
(***************************************************************************)
\* db["product"].find_one({"_id": oid}): the set holding the document, or {}
find_one(store, oid) ==
    IF oid \in DOMAIN store
    THEN {[_id |-> oid, title |-> store[oid].title, price |-> store[oid].price,
           images |-> store[oid].images]}
    ELSE {}

\* serialize_doc followed by Product(**doc)
serialize_doc(doc) ==
    [id |-> Str(doc._id), title |-> doc.title, price |-> doc.price, images |-> doc.images]

HTTPException(op, status, detail, calls) ==
    [op |-> op, status |-> status, detail |-> detail, body |-> {}, storeCalls |-> calls]

\* an exception that is no HTTPException: FastAPI answers 500
Unhandled(op, calls) == HTTPException(op, 500, "Internal Server Error", calls)

Returned(op, body, calls) ==
    [op |-> op, status |-> 200, detail |-> "", body |-> body, storeCalls |-> calls]

(***************************************************************************)
(* Store operations (pymongo collection methods)                           *)
(***************************************************************************)
\* update_one called with upsert=True: a missing document is inserted
update_one_upsert(store, oid, data) ==
    [store |-> [k \in DOMAIN store \cup {oid} |-> IF k = oid THEN data ELSE store[k]],
     matched_count |-> IF oid \in DOMAIN store THEN 1 ELSE 0]

\* update_many({}, ...): the filter is lost and every document is overwritten
update_one_unfiltered(store, oid, data) ==
    [store |-> [k \in DOMAIN store |-> data],
     matched_count |-> IF oid \in DOMAIN store THEN 1 ELSE 0]

\* update_one({"_id": oid}, {"$set": data}) without upsert
update_one(store, oid, data) ==
    IF oid \in DOMAIN store
    THEN [store |-> [store EXCEPT ![oid] = data], matched_count |-> 1]
    ELSE [store |-> store, matched_count |-> 0]

\* delete_one({"_id": oid})
delete_one(store, oid) ==
    IF oid \in DOMAIN store
    THEN [store |-> [k \in DOMAIN store \ {oid} |-> store[k]], deleted_count |-> 1]
    ELSE [store |-> store, deleted_count |-> 0]

\* create_document("product", data): insert under a fresh key, return str(key)
create_document(store, n, data) ==
    [store |-> [k \in DOMAIN store \cup {NewObjectId(n)} |->
                  IF k = NewObjectId(n) THEN data ELSE store[k]],
     new_id |-> Str(NewObjectId(n))]

(***************************************************************************)
(* Initial state: module import                                            *)
(***************************************************************************)
\* lines 11-19: stripe is the sdk only if the key is set and the import works
LoadStripe(secret, importOk) == IF secret /\ importOk THEN "sdk" ELSE "None"

NoResponse == [status |-> 0, detail |-> <<"", <<>>>>, url |-> ""]

Init ==
    /\ STRIPE_SECRET \in BOOLEAN
    /\ \E importOk \in BOOLEAN : stripe = LoadStripe(STRIPE_SECRET, importOk)
    /\ db \in {"None", "Database"}
    /\ product = <<>>
    /\ nextKey = 0
    /\ resp = [op |-> "none", status |-> 0, detail |-> "", body |-> {}, storeCalls |-> 0]
    /\ pc = "idle"
    /\ req = <<>>
    /\ prods = <<>>
    /\ line_items = <<>>
    /\ storeReads = 0
    /\ gateway = <<>>
    /\ response = NoResponse

(***************************************************************************)
(* Products                                                                *)
(***************************************************************************)
\* line 104: db.command("serverStatus")["localTime"] is a datetime.datetime,
\* __mro__[1] is datetime.date, which has no attribute from_json
DateHasFromJson == FALSE

\* lines 104-111, after the insert
CreatedResponse(store, new_id) ==
    IF ~DateHasFromJson
    THEN Unhandled("create", 2)
    ELSE LET saved == IF IsValidObjectId(new_id)
                      THEN find_one(store, ObjectId(new_id))
                      ELSE {find_one(store, CHOOSE k \in DOMAIN store : TRUE)}
         IN  Returned("create", {serialize_doc(d) : d \in saved}, 4)

create_product(payload) ==
    /\ IF db = "None"
       THEN /\ resp' = HTTPException("create", 500, "Database not configured", 0)
            /\ UNCHANGED <<product, nextKey>>
       ELSE /\ nextKey < MaxProducts
            /\ LET created == create_document(product, nextKey + 1, payload)
               IN  /\ product' = created.store
                   /\ nextKey' = nextKey + 1
                   /\ resp' = CreatedResponse(created.store, created.new_id)
    /\ UNCHANGED <<configVars, checkoutVars>>

\* the response get_product gives on a store
GetResponse(store, product_id) ==
    IF db = "None" THEN Unhandled("get", 0)
    ELSE IF ~IsValidObjectId(product_id) THEN Unhandled("get", 0)
    ELSE LET doc == find_one(store, ObjectId(product_id))
         IN  IF doc = {}
             THEN HTTPException("get", 404, "Product not found", 1)
             ELSE Returned("get", {serialize_doc(d) : d \in doc}, 1)

get_product(product_id) ==
    /\ resp' = GetResponse(product, product_id)
    /\ UNCHANGED <<product, nextKey, configVars, checkoutVars>>

\* what update_product does to a store, and its response
UpdateOutcome(store, product_id, payload) ==
    IF db = "None" \/ ~IsValidObjectId(product_id)
    THEN [store |-> store, resp |-> Unhandled("update", 0)]
    ELSE LET result == update_one(store, ObjectId(product_id), payload)
         IN  [store |-> result.store,
              resp |-> IF result.matched_count = 0
                       THEN HTTPException("update", 404, "Product not found", 1)
                       ELSE Returned("update",
                                {serialize_doc(d) :
                                    d \in find_one(result.store, ObjectId(product_id))},
                                2)]

update_product(product_id, payload) ==
    /\ product' = UpdateOutcome(product, product_id, payload).store
    /\ resp' = UpdateOutcome(product, product_id, payload).resp
    /\ UNCHANGED <<nextKey, configVars, checkoutVars>>

\* what delete_product does to a store, and its response
DeleteOutcome(store, product_id) ==
    IF db = "None" \/ ~IsValidObjectId(product_id)
    THEN [store |-> store, resp |-> Unhandled("delete", 0)]
    ELSE LET result == delete_one(store, ObjectId(product_id))
         IN  [store |-> result.store,
              resp |-> IF result.deleted_count = 0
                       THEN HTTPException("delete", 404, "Product not found", 1)
                       ELSE Returned("delete", {}, 1)]

delete_product(product_id) ==
    /\ product' = DeleteOutcome(product, product_id).store
    /\ resp' = DeleteOutcome(product, product_id).resp
    /\ UNCHANGED <<nextKey, configVars, checkoutVars>>

(***************************************************************************)
(* Checkout with Stripe                                                    *)
(***************************************************************************)
\* prices whose IEEE-754 double times 100 falls just below the decimal
\* product (19.99 * 100 = 1998.9999999999998); of the prices of ProductIn
BinaryShortfall == {19990}

\* float(price) * 100, in thousandths of a minor unit
FloatTimes100(price) == price * 100 - (IF price \in BinaryShortfall THEN 1 ELSE 0)

\* int(x): truncation toward zero (x >= 0 here)
IntOf(x) == x \div 1000

\* the factor 100 forgotten: major units sent as minor units
unit_amount_major(prod) == prod.price \div 1000

\* line 153
unit_amount(prod) == IntOf(FloatTimes100(prod.price))

\* the [:1] slice forgotten: every image is sent
LineItem_allImages(prod, item) ==
    [name |-> prod.title,
     images |-> prod.images,
     unit_amount |-> unit_amount(prod),
     quantity |-> item.quantity]

\* lines 154-164
LineItem(prod, item) ==
    [name |-> prod.title,
     images |-> SubSeq(prod.images, 1, IF Len(prod.images) < 1 THEN Len(prod.images) ELSE 1),
     unit_amount |-> unit_amount(prod),
     quantity |-> item.quantity]

StripeNotConfigured ==
    [status |-> 400, detail |-> <<"Stripe is not configured", <<>>>>, url |-> ""]

ProductNotFound(product_id) ==
    [status |-> 404, detail |-> <<"Product not found: ", product_id>>, url |-> ""]

InternalServerError ==
    [status |-> 500, detail |-> <<"Internal Server Error", <<>>>>, url |-> ""]

\* line 177
PaymentGatewayError(msg) == [status |-> 500, detail |-> <<msg, <<>>>>, url |-> ""]

\* line 175
SessionUrl(url) == [status |-> 200, detail |-> <<"", <<>>>>, url |-> url]

\* what stripe.checkout.Session.create does: a session, or an exception
GatewayOutcomes ==
    { [ok |-> TRUE, url |-> "https://checkout.stripe/session", msg |-> ""],
      [ok |-> FALSE, url |-> "", msg |-> "rate_limit"] }

\* the environment variable tested instead of the module global
SecretIsMissing == ~STRIPE_SECRET

\* line 143
StripeIsNone == stripe = "None"

\* lines 142-148: a request arrives
create_checkout_session(items) ==
    /\ pc = "idle"
    /\ req' = items
    /\ prods' = <<>>
    /\ line_items' = <<>>
    /\ storeReads' = 0
    /\ gateway' = <<>>
    /\ IF StripeIsNone
       THEN pc' = "done" /\ response' = StripeNotConfigured
       ELSE pc' = "loop" /\ response' = NoResponse
    /\ UNCHANGED <<configVars, catalogVars>>

\* lines 149-164: one iteration of the loop
ResolveItem ==
    /\ pc = "loop"
    /\ Len(line_items) < Len(req)
    /\ LET item == req[Len(line_items) + 1]
       IN  IF db = "None" \/ ~IsValidObjectId(item.product_id)
           THEN /\ pc' = "done"
                /\ response' = InternalServerError
                /\ UNCHANGED <<prods, line_items, storeReads>>
           ELSE LET prod == find_one(product, ObjectId(item.product_id))
                IN  /\ storeReads' = storeReads + 1
                    /\ IF prod = {}
                       THEN /\ pc' = "done"
                            /\ response' = ProductNotFound(item.product_id)
                            /\ UNCHANGED <<prods, line_items>>
                       ELSE /\ prods' = prods \o [i \in 1..1 |-> CHOOSE d \in prod : TRUE]
                            /\ line_items' =
                                 Append(line_items, LineItem(CHOOSE d \in prod : TRUE, item))
                            /\ UNCHANGED <<pc, response>>
    /\ UNCHANGED <<req, gateway, configVars, catalogVars>>

\* a failed call repeated once before the error is surfaced
CallGatewayWithRetry ==
    /\ pc = "loop"
    /\ Len(line_items) = Len(req)
    /\ \E out \in GatewayOutcomes :
          /\ gateway' = IF out.ok
                        THEN Append(gateway, [line_items |-> line_items, outcome |-> out])
                        ELSE gateway \o <<[line_items |-> line_items, outcome |-> out],
                                          [line_items |-> line_items, outcome |-> out]>>
          /\ response' = IF out.ok THEN SessionUrl(out.url) ELSE PaymentGatewayError(out.msg)
    /\ pc' = "done"
    /\ UNCHANGED <<req, prods, line_items, storeReads, configVars, catalogVars>>

\* lines 166-177: the single gateway call and its outcome
CallGateway ==
    /\ pc = "loop"
    /\ Len(line_items) = Len(req)
    /\ \E out \in GatewayOutcomes :
          /\ gateway' = Append(gateway, [line_items |-> line_items, outcome |-> out])
          /\ response' = IF out.ok THEN SessionUrl(out.url) ELSE PaymentGatewayError(out.msg)
    /\ pc' = "done"
    /\ UNCHANGED <<req, prods, line_items, storeReads, configVars, catalogVars>>

\* lines 144, 152, 175, 177: the response is sent and the locals are dropped
Return ==
    /\ pc = "done"
    /\ pc' = "idle"
    /\ req' = <<>>
    /\ prods' = <<>>
    /\ line_items' = <<>>
    /\ storeReads' = 0
    /\ gateway' = <<>>
    /\ response' = NoResponse
    /\ UNCHANGED <<configVars, catalogVars>>

Next ==
    \/ \E payload \in ProductIn : create_product(payload)
    \/ \E product_id \in IdStrings : get_product(product_id)
    \/ \E product_id \in IdStrings, payload \in ProductIn : update_product(product_id, payload)
    \/ \E product_id \in IdStrings : delete_product(product_id)
    \/ \E items \in CheckoutRequest : create_checkout_session(items)
    \/ ResolveItem
    \/ CallGateway
    \/ Return

Spec == Init /\ [][Next]_vars

(***************************************************************************)
(* Properties                                                              *)
(***************************************************************************)
Configured == stripe # "None" /\ db # "None"

\* the cart item the loop is at, or stopped at
CurrentItem == req[Len(line_items) + 1]

\* round(price * 100) on the decimal price, halves up
RoundedMinorUnits(price) == (price * 100 + 500) \div 1000

\* C1: (as claimed) with the gateway and the store configured, a request in
\* which some cart item does not resolve never calls the gateway and ends
\* with ProductNotFound (404) naming the first item that did not resolve.
C1_CheckoutAtomicity ==
    (Configured /\ pc = "done" /\ Len(line_items) < Len(req)) =>
        /\ gateway = <<>>
        /\ response = ProductNotFound(CurrentItem.product_id)

\* C2: while stripe is None the gateway is never called, the store is never
\* read, and every checkout request ends at once with the 400
\* "not configured" error, whatever the cart holds.
C2_CheckoutUnavailable ==
    stripe = "None" =>
        /\ gateway = <<>>
        /\ storeReads = 0
        /\ line_items = <<>>
        /\ pc \in {"idle", "done"}
        /\ pc = "done" => response.status = 400 /\ response = StripeNotConfigured

\* C2 witness: a cart with a malformed identifier and a stored product was
\* refused with the key set but the sdk not loaded.
C2_Witness ==
    /\ stripe = "None" /\ STRIPE_SECRET /\ db # "None"
    /\ pc = "done" /\ response.status = 400
    /\ \E i \in 1..Len(req) : ~IsValidObjectId(req[i].product_id)
    /\ \E i \in 1..Len(req) :
          /\ IsValidObjectId(req[i].product_id)
          /\ ObjectId(req[i].product_id) \in DOMAIN product

\* C3: (as claimed) with the store configured, every request carrying a
\* malformed identifier is answered 404 without a store call: get, update,
\* delete, and the checkout loop at a malformed cart item.
C3_MalformedIdIsClientError ==
    [][ /\ \A id \in IdStrings :
              (db # "None" /\ ~IsValidObjectId(id)
               /\ (\/ get_product(id)
                   \/ delete_product(id)
                   \/ \E payload \in ProductIn : update_product(id, payload)))
              => (resp'.status = 404 /\ resp'.storeCalls = 0)
        /\ (Configured /\ ResolveItem /\ ~IsValidObjectId(CurrentItem.product_id))
              => (response'.status = 404 /\ storeReads' = storeReads)
      ]_vars

\* C4: (as claimed) every line item sent to the gateway has unit_amount
\* round(p * 100) for the price p read for it.
C4_MinorUnitRounding ==
    \A k \in 1..Len(gateway) :
        \A i \in 1..Len(gateway[k].line_items) :
            gateway[k].line_items[i].unit_amount = RoundedMinorUnits(prods[i].price)

\* C5: a request whose items all resolved calls the gateway exactly once
\* when it ends; the line items of a gateway call are one per cart item,
\* in cart order, each with the item's quantity, the title of the product
\* read for that item, and the first image of that product if it has one.
C5_LineItemConstruction ==
    /\ (Configured /\ pc = "done" /\ Len(line_items) = Len(req)) => Len(gateway) = 1
    /\ \A k \in 1..Len(gateway) :
          LET sent == gateway[k].line_items
          IN  /\ Len(sent) = Len(req)
              /\ Len(prods) = Len(req)
              /\ \A i \in 1..Len(sent) :
                    /\ prods[i]._id = ObjectId(req[i].product_id)
                    /\ sent[i].quantity = req[i].quantity
                    /\ sent[i].name = prods[i].title
                    /\ Len(sent[i].images) <= 1
                    /\ (prods[i].images = <<>> => sent[i].images = <<>>)
                    /\ (prods[i].images # <<>> => sent[i].images = <<prods[i].images[1]>>)

\* C5 witness: the same product twice in a cart gave two line items, and
\* the product had two images.
C5_Witness ==
    /\ Len(gateway) = 1
    /\ Len(gateway[1].line_items) = 2
    /\ req[1].product_id = req[2].product_id
    /\ Len(prods[1].images) = 2

\* C6: (as claimed) with the store configured, create_product answers 200
\* with the payload under the newly assigned identifier, and get_product
\* with that identifier then returns the same product.
C6_CreateGetRoundTrip ==
    [][ \A payload \in ProductIn :
            (db # "None" /\ create_product(payload)) =>
                /\ resp'.status = 200
                /\ resp'.body = {[id |-> Str(NewObjectId(nextKey')), title |-> payload.title,
                                  price |-> payload.price, images |-> payload.images]}
                /\ \A id \in IdStrings :
                      id = Str(NewObjectId(nextKey')) =>
                          GetResponse(product', id).body = resp'.body
      ]_vars

\* C7: with the store configured, get, update and delete of a well-formed
\* identifier that is not stored answer 404 and leave the collection as it
\* is; update inserts nothing.
C7_AbsentIdIsNotFound ==
    db # "None" =>
        \A id \in IdStrings :
            (IsValidObjectId(id) /\ ObjectId(id) \notin DOMAIN product) =>
                /\ GetResponse(product, id).status = 404
                /\ DeleteOutcome(product, id).resp.status = 404
                /\ DeleteOutcome(product, id).store = product
                /\ \A payload \in ProductIn :
                      /\ UpdateOutcome(product, id, payload).resp.status = 404
                      /\ UpdateOutcome(product, id, payload).store = product

\* C7 witness: an update was answered 404 after every created product had
\* been deleted, and nothing is stored.
C7_Witness ==
    /\ resp.op = "update" /\ resp.status = 404
    /\ nextKey = MaxProducts
    /\ DOMAIN product = {}

\* C8: the gateway is called at most once per request; a failed call ends
\* the request with status 500 and the gateway's message.
C8_GatewayFailure ==
    /\ Len(gateway) <= 1
    /\ \A k \in 1..Len(gateway) :
          ~gateway[k].outcome.ok =>
              /\ pc = "done"
              /\ response.status = 500
              /\ response.detail[1] = gateway[k].outcome.msg
              /\ response.url = ""

\* C8 witness: a request with items ended on a failed gateway call.
C8_Witness ==
    /\ pc = "done"
    /\ Len(req) >= 1
    /\ Len(gateway) = 1
    /\ ~gateway[1].outcome.ok
    /\ response.status = 500

\* stored identifiers: no step but a successful delete removes one, no step
\* but a create adds one, and a created one is fresh
IdentifiersStable ==
    /\ DOMAIN product' \subseteq DOMAIN product \cup {NewObjectId(nextKey')}
    /\ (DOMAIN product' # DOMAIN product /\ DOMAIN product \subseteq DOMAIN product')
          => (nextKey' = nextKey + 1 /\ NewObjectId(nextKey') \notin DOMAIN product)
    /\ (~(DOMAIN product \subseteq DOMAIN product'))
          => (resp'.op = "delete" /\ resp'.status = 200)

\* what update_product does to the collection on a stored identifier
UpdateFrame(id, payload) ==
    LET out == UpdateOutcome(product, id, payload)
    IN  /\ DOMAIN out.store = DOMAIN product
        /\ out.store[ObjectId(id)] = payload
        /\ \A k \in DOMAIN product \ {ObjectId(id)} : out.store[k] = product[k]
        /\ out.resp.status = 200
        /\ out.resp.body # {}

StoredIds == {id \in IdStrings : IsValidObjectId(id) /\ ObjectId(id) \in DOMAIN product}

\* C9 (as claimed): identifiers are stable, and update_product on a stored
\* identifier replaces that product's attributes only and returns the
\* product under the identifier string that was requested.
C9_UpdateReturnsRequestedId ==
    /\ [][IdentifiersStable]_vars
    /\ [](db # "None" =>
            \A id \in StoredIds, payload \in ProductIn :
                /\ UpdateFrame(id, payload)
                /\ \A b \in UpdateOutcome(product, id, payload).resp.body : b.id = id)

\* C9 (amended): identifiers are stable, and update_product on a stored
\* identifier replaces that product's attributes only and returns the
\* product under the canonical lower-case form of the requested
\* identifier, which is the requested string when that is canonical.
C9_UpdateReturnsCanonicalId ==
    /\ [][IdentifiersStable]_vars
    /\ [](db # "None" =>
            \A id \in StoredIds, payload \in ProductIn :
                /\ UpdateFrame(id, payload)
                /\ \A b \in UpdateOutcome(product, id, payload).resp.body :
                      /\ b.id = Str(ObjectId(id))
                      /\ ToUpper(b.id) = ToUpper(id)
                      /\ (id = Str(ObjectId(id)) => b.id = id)
                      /\ [title |-> b.title, price |-> b.price, images |-> b.images]
                            = payload)

\* C9 witness: an update succeeded while another product with other
\* attributes was stored.
C9_Witness ==
    /\ resp.op = "update" /\ resp.status = 200
    /\ \E b \in resp.body :
          \E k \in DOMAIN product :
              /\ k # ObjectId(b.id)
              /\ product[k] # product[ObjectId(b.id)]

\* C10: a step of the checkout request never changes the catalog; the loop
\* appends one line item per step, priced from the price stored for the
\* item's identifier in the state the step reads; the gateway receives the
\* line items as they were built.
C10_ServerComputedPricing ==
    [][ /\ (pc' # pc \/ req' # req \/ line_items' # line_items
             \/ gateway' # gateway \/ response' # response)
              => (product' = product /\ nextKey' = nextKey)
        /\ (pc = "loop" /\ line_items' # line_items) =>
              /\ IsValidObjectId(CurrentItem.product_id)
              /\ ObjectId(CurrentItem.product_id) \in DOMAIN product
              /\ Len(line_items') = Len(line_items) + 1
              /\ SubSeq(line_items', 1, Len(line_items)) = line_items
              /\ line_items'[Len(line_items')].unit_amount =
                    IntOf(FloatTimes100(product[ObjectId(CurrentItem.product_id)].price))
        /\ (gateway' # gateway /\ pc = "loop") =>
              \A k \in 1..Len(gateway') : gateway'[k].line_items = line_items
      ]_vars

\* C10 witness: the gateway received two line items for one product
\* identifier with different amounts, and that product has since been
\* deleted.
C10_Witness ==
    /\ Len(gateway) = 1
    /\ Len(req) = 2
    /\ req[1].product_id = req[2].product_id
    /\ gateway[1].line_items[1].unit_amount # gateway[1].line_items[2].unit_amount
    /\ ObjectId(req[1].product_id) \notin DOMAIN product

====
